---------------------------- MODULE Spec2Model ----------------------------
(***************************************************************************)
(* A model of the rust-repos crawler core:                                 *)
(*   - src/github/api.rs : GitHubApi (retry engine, the three closures     *)
(*     run through it, should_slow_down);                                  *)
(*   - src/data.rs       : Data (edit_state / get_last_id / set_last_id,   *)
(*     store_repo).                                                        *)
(***************************************************************************)
EXTENDS Integers, Sequences, FiniteSets, TLC

(***************************************************************************)
(* Bounds of the model.                                                    *)
(***************************************************************************)
\* attempts one retry() call may make in the single-caller specification
MaxAttempts == 10
\* attempts one retry() call may make when two callers run concurrently
MaxConcAttempts == 2
\* retry() calls one thread may start
MaxCalls == 2
\* get_last_id / set_last_id calls the single caller may make
MaxStateCalls == 3
\* get_last_id / set_last_id calls each of two concurrent callers may make
MaxConcStateCalls == 1
\* store_repo calls the single caller may make
MaxStoreCalls == 3
\* store_repo calls each of two concurrent callers may make
MaxConcStoreCalls == 1

Threads == {"t1", "t2"}

(***************************************************************************)
(* Program constants of GitHubApi::retry.                                  *)
(***************************************************************************)
InitialWait == 10
WaitCap == 640
TooManyRequests == 429

(***************************************************************************)
(* Program constant of GitHubApi::load_repositories.                       *)
(***************************************************************************)
MaxCost == 1

(***************************************************************************)
(* Values.  Option<T> is a sequence of length 0 (None) or 1 (Some).        *)
(* Text is a sequence of characters.                                       *)
(***************************************************************************)
None == << >>
Some(x) == << x >>

Abuse == << "a", "b", "u", "s", "e" >>

\* str::contains: some window of hay equals needle
Contains(hay, needle) ==
    \E i \in 1 .. (Len(hay) - Len(needle) + 1) :
        SubSeq(hay, i, i + Len(needle) - 1) = needle

(***************************************************************************)
(* Fallible<T>: Ok(value) or Err(error).  An error keeps its concrete type *)
(* (what failure::Error::downcast_ref sees) and its payload.               *)
(***************************************************************************)
NoVal == [tag |-> "none", flag |-> FALSE, nodes |-> << >>, cost |-> 0]
BoolVal(b) == [tag |-> "bool", flag |-> b, nodes |-> << >>, cost |-> 0]
DataVal(d) == [tag |-> "data", flag |-> FALSE, nodes |-> d.nodes, cost |-> d.cost]

Ok(v) ==
    [ok |-> TRUE, val |-> v, ty |-> "none", status |-> 0, timeout |-> FALSE,
     kind |-> "none", msg |-> << >>]
Err(ty, status, timeout, kind, msg) ==
    [ok |-> FALSE, val |-> NoVal, ty |-> ty, status |-> status,
     timeout |-> timeout, kind |-> kind, msg |-> msg]

\* struct RetryRequest(StatusCode)
RetryRequest(status) == Err("RetryRequest", status, FALSE, "none", << >>)
\* reqwest::Error, with what is_timeout() answers
ReqwestError(isTimeout) == Err("reqwest", 0, isTimeout, "none", << >>)
\* std::io::Error, with its kind()
IoError(kind) == Err("io", 0, FALSE, kind, << >>)
\* failure::err_msg(..) (with or without context), carrying the text
ErrMsg(msg, status) == Err("msg", status, FALSE, "none", msg)

\* the value retry holds before any attempt has produced one
NoRes == Err("unset", 0, FALSE, "none", << >>)

\* the closure did not return: it panicked
Panicked == Err("panic", 0, FALSE, "none", << >>)


(***************************************************************************)
(* What the remote end can answer to one request.  transport: whether      *)
(* send() got a response at all ("ok"), or timed out, or had the           *)
(* connection reset by the peer, or failed otherwise; status: the HTTP     *)
(* status; malformed:                                                      *)
(* whether the body fails to deserialize; data / errors / message: the     *)
(* fields of GraphResponse<T> (for a REST call, data is the listing and    *)
(* message the GitHubError message of an error body).                      *)
(***************************************************************************)
Statuses == {200, 403, 404, 500, 502, 503, 504}

Texts ==
    { Abuse,
      << "x" >> \o Abuse \o << "y" >>,
      << "a", "b", "u", "s" >>,
      << "b", "a", "d" >> }

\* struct GitHubError { message, type_ }
GitHubErrors ==
    [message : {Abuse, << "b", "a", "d" >>},
     type_ : {None, Some("NOT_FOUND"), Some("FORBIDDEN")}]

ErrorLists ==
    { << e >> : e \in {g \in GitHubErrors : g.message = << "b", "a", "d" >>} }
        \cup { << >>,
               << [message |-> Abuse, type_ |-> None] >>,
               << [message |-> << "b", "a", "d" >>, type_ |-> Some("NOT_FOUND")],
                  [message |-> Abuse, type_ |-> Some("FORBIDDEN")] >> }

\* struct GraphRepositories { nodes, rate_limit: { cost } }
Datas ==
    { [nodes |-> << "r1", "null" >>, cost |-> 1],
      [nodes |-> << "r1", "r2" >>, cost |-> 2] }

Response(transport, status, malformed, data, errors, message) ==
    [transport |-> transport, status |-> status, malformed |-> malformed,
     data |-> data, errors |-> errors, message |-> message]

NoResp == Response("none", 0, FALSE, None, None, None)

Responses ==
    { Response(tr, 0, FALSE, None, None, None) : tr \in {"timeout", "reset", "error"} }
        \cup { Response("ok", st, TRUE, None, None, None) : st \in Statuses }
        \cup { Response("ok", r[1], FALSE, r[2], r[3], r[4]) :
                 r \in Statuses
                       \X ({None} \cup {Some(d) : d \in Datas})
                       \X ({None} \cup {Some(l) : l \in ErrorLists})
                       \X ({None} \cup {Some(m) : m \in Texts}) }

\* what a raw.githubusercontent.com probe can answer: a status, no JSON body
ProbeResponses == {r \in Responses : r.data = None /\ r.errors = None /\ r.message = None}

(***************************************************************************)
(* The steps of one attempt.                                               *)
(***************************************************************************)
\* RequestBuilder::send()?  Its error type is reqwest::Error whatever the
\* cause; is_timeout() answers true for a timeout only.
send(resp) ==
    IF resp.transport = "ok" THEN Ok(NoVal)
    ELSE ReqwestError(resp.transport = "timeout")

\* ResponseExt::handle_errors
handle_errors(resp) ==
    IF resp.status \in {500, 502, 503, 504}
    THEN RetryRequest(resp.status)
    ELSE Ok(NoVal)

\* Response::json()?
json(resp) ==
    IF resp.malformed THEN ReqwestError(FALSE) ELSE Ok(NoVal)

EmptyGraphQL == << "e", "m", "p", "t", "y" >>

\* variant: the errors are looked at before the data
graphqlErrorsFirst(resp) ==
    IF ~send(resp).ok THEN send(resp)
    ELSE IF ~handle_errors(resp).ok THEN handle_errors(resp)
    ELSE IF ~json(resp).ok THEN json(resp)
    ELSE IF resp.errors # None
         THEN IF resp.errors[1] = << >> THEN Panicked
              ELSE ErrMsg(resp.errors[1][Len(resp.errors[1])].message, 0)
    ELSE IF resp.data # None THEN Ok(DataVal(resp.data[1]))
    ELSE ErrMsg(EmptyGraphQL, 0)

\* variant: errors without data ask for a retry
graphqlRetriesErrors(resp) ==
    IF ~send(resp).ok THEN send(resp)
    ELSE IF ~handle_errors(resp).ok THEN handle_errors(resp)
    ELSE IF ~json(resp).ok THEN json(resp)
    ELSE IF resp.data # None THEN Ok(DataVal(resp.data[1]))
    ELSE IF resp.errors # None THEN RetryRequest(TooManyRequests)
    ELSE ErrMsg(EmptyGraphQL, 0)

\* the closure of GitHubApi::graphql
graphql(resp) ==
    IF ~send(resp).ok THEN send(resp)
    ELSE IF ~handle_errors(resp).ok THEN handle_errors(resp)
    ELSE IF ~json(resp).ok THEN json(resp)
    ELSE IF resp.data # None THEN Ok(DataVal(resp.data[1]))
    ELSE IF resp.errors # None
         \* errors.pop().unwrap(): an empty list makes the unwrap panic
         THEN IF resp.errors[1] = << >> THEN Panicked
              ELSE ErrMsg(resp.errors[1][Len(resp.errors[1])].message, 0)
    ELSE IF resp.message # None
         THEN IF Contains(resp.message[1], Abuse)
              THEN RetryRequest(TooManyRequests)
              ELSE ErrMsg(resp.message[1], 0)
    ELSE ErrMsg(EmptyGraphQL, 0)

\* the closure of GitHubApi::scrape_repositories
scrape_repositories(resp) ==
    IF ~send(resp).ok THEN send(resp)
    ELSE IF ~handle_errors(resp).ok THEN handle_errors(resp)
    ELSE IF resp.status = 200
         THEN IF resp.malformed \/ resp.data = None
              THEN ReqwestError(FALSE)
              ELSE Ok(DataVal(resp.data[1]))
    ELSE IF resp.malformed \/ resp.message = None
         THEN ReqwestError(FALSE)
    ELSE IF Contains(resp.message[1], Abuse)
         THEN RetryRequest(TooManyRequests)
    ELSE ErrMsg(resp.message[1], resp.status)

\* variant: every status but 200 means the file is not there
file_existsElseAbsent(resp) ==
    IF ~send(resp).ok THEN send(resp)
    ELSE IF ~handle_errors(resp).ok THEN handle_errors(resp)
    ELSE IF resp.status = 200 THEN Ok(BoolVal(TRUE))
    ELSE Ok(BoolVal(FALSE))

\* the closure of GitHubApi::file_exists
file_exists(resp) ==
    IF ~send(resp).ok THEN send(resp)
    ELSE IF ~handle_errors(resp).ok THEN handle_errors(resp)
    ELSE IF resp.status = 200 THEN Ok(BoolVal(TRUE))
    ELSE IF resp.status = 404 THEN Ok(BoolVal(FALSE))
    ELSE ErrMsg(<< >>, resp.status)

Ops == {"graphql", "scrape_repositories", "file_exists"}

ResponsesOf(o) == IF o = "file_exists" THEN ProbeResponses ELSE Responses

\* f(): the closure handed to retry, applied to what the remote end answered
Attempt(o, resp) ==
    CASE o = "graphql" -> graphql(resp)
      [] o = "scrape_repositories" -> scrape_repositories(resp)
      [] OTHER -> file_exists(resp)

(***************************************************************************)
(* GitHubApi::retry, its pure parts.                                       *)
(***************************************************************************)
\* the `retry` flag computed by the match on Err(err): the first downcast
\* that succeeds decides
ShouldRetry(r) ==
    IF r.ty = "RetryRequest" THEN TRUE
    ELSE IF r.ty = "reqwest" THEN r.timeout
    ELSE IF r.ty = "io" THEN r.kind = "ConnectionReset"
    ELSE FALSE

\* variant: the doubling is not capped
NextWaitUncapped(w) == w * 2

\* if wait.as_secs() < 640 { wait *= 2 }
NextWait(w) == IF w < WaitCap THEN w * 2 ELSE w

\* variant: the flag is stored at every retry
StoreSlowDownAlways(f, cur) == TRUE

\* variant: the flag is stored at every retry but the first
StoreSlowDownUnlessFirst(f, cur) == IF f THEN cur ELSE TRUE

\* if first { slow_down.store(true) }
StoreSlowDown(f, cur) == IF f THEN TRUE ELSE cur

\* variant: the flag is read and left as it is
SwapSlowDownKeep(cur) == cur

\* what slow_down.swap(false) leaves in the flag
SwapSlowDown(cur) == FALSE

(***************************************************************************)
(* GitHubApi::load_repositories: what becomes of the value of graphql.     *)
(***************************************************************************)
\* Fallible<Vec<Option<GraphRepository>>>, or the panic of the assert!
NoOut == [tag |-> "none", nodes |-> << >>]
Pending == [tag |-> "pending", nodes |-> << >>]
Nodes(n) == [tag |-> "nodes", nodes |-> n]
OutErr == [tag |-> "err", nodes |-> << >>]
Panic == [tag |-> "panic", nodes |-> << >>]

\* variant: the assertion is compiled out
CostGuardOff(cost) == TRUE

\* data.rate_limit.cost <= 1
CostGuard(cost) == cost <= MaxCost


(***************************************************************************)
(* Data: the cursor state and its file.                                    *)
(* State.last_id is a HashMap<String, usize>: here a function from the     *)
(* platforms to Option<usize>.  state.json is a sequence of tokens: the    *)
(* opening of the document, one entry per key, its closing, the newline.   *)
(***************************************************************************)
Platforms == {"github", "gitlab"}
PlatformOrder == << "github", "gitlab" >>
Ids == {1, 2}

\* State::default(): an empty last_id
DefaultState == [p \in Platforms |-> None]

\* variant: the id is stored one too low
InsertOffByOne(m, p, id) == [m EXCEPT ![p] = Some(id - 1)]

\* state.last_id.insert(platform.to_string(), id)
Insert(m, p, id) == [m EXCEPT ![p] = Some(id)]

\* the closure of get_last_id: the state as it was, the value found
get_last_id(m, p) == [state |-> m, result |-> m[p]]

\* the closure of set_last_id: the state with the id stored, ()
set_last_id(m, p, id) == [state |-> Insert(m, p, id), result |-> None]

Tok(t, k, v) == [t |-> t, k |-> k, v |-> v]
Open == Tok("open", "", 0)
Close == Tok("close", "", 0)
Newline == Tok("nl", "", 0)
Entry(k, v) == Tok("entry", k, v)

\* serde_json::to_writer_pretty(&mut file, &state)
ToJson(m) ==
    LET present == SelectSeq(PlatformOrder, LAMBDA p : m[p] # None)
    IN  << Open >> \o [i \in 1 .. Len(present) |-> Entry(present[i], m[present[i]][1])]
            \o << Close >>

\* to_writer_pretty, then write_all(b"\n")
Document(m) == ToJson(m) \o << Newline >>

\* serde_json::from_slice: the text must be one whole document (white space
\* may follow it); of two entries with one key the later one wins
FromJson(text) ==
    IF /\ Len(text) >= 2
       /\ text[1].t = "open"
       /\ \E j \in 2 .. Len(text) :
             /\ text[j].t = "close"
             /\ \A i \in 2 .. (j - 1) : text[i].t = "entry"
             /\ \A i \in (j + 1) .. Len(text) : text[i].t = "nl"
    THEN [ok |-> TRUE,
          map |-> [p \in Platforms |->
                     LET at == {i \in 1 .. Len(text) : text[i].t = "entry" /\ text[i].k = p}
                     IN  IF at = {} THEN None
                         ELSE Some(text[CHOOSE i \in at : \A j \in at : j <= i].v)]]
    ELSE [ok |-> FALSE, map |-> DefaultState]

\* a file: whether it exists, and what it holds
NoFile == [exists |-> FALSE, content |-> << >>]
File(content) == [exists |-> TRUE, content |-> content]

\* what the first edit_state of a new process makes of the file, when it
\* can read it: the parsed state, or the default if there is no file
FreshLoad(f) ==
    IF f.exists THEN FromJson(f.content) ELSE [ok |-> TRUE, map |-> DefaultState]

\* the files a run can find in the data directory: none, the document a
\* previous run left, a text that is no document
StateFiles ==
    { NoFile,
      File(Document(Insert(DefaultState, "github", 1))),
      File(<< Open, Entry("github", 1) >>) }

\* the calls of the Progress Store
StateOps ==
    { [kind |-> "get", platform |-> p, id |-> 0] : p \in Platforms }
        \cup { [kind |-> "set", platform |-> p, id |-> i] : p \in Platforms, i \in Ids }

NoStateOp == [kind |-> "none", platform |-> "", id |-> 0]

\* Fallible<Option<usize>> / Fallible<()>
StateOk(v) == [ok |-> TRUE, val |-> v]
StateErr == [ok |-> FALSE, val |-> None]

\* the larger of two Option<usize>, None being below every Some
HighWater(a, b) ==
    IF a = None THEN b
    ELSE IF b = None THEN a
    ELSE IF a[1] < b[1] THEN b ELSE a

(***************************************************************************)
(* Data: the CSV files.  A file is a sequence of lines, a line a sequence  *)
(* of fields.                                                              *)
(***************************************************************************)
\* struct Repo
Repos ==
    { [id |-> "1", name |-> "r1", has_cargo_toml |-> TRUE, has_cargo_lock |-> FALSE],
      [id |-> "2", name |-> "r2", has_cargo_toml |-> FALSE, has_cargo_lock |-> TRUE] }

NoRepo == [id |-> "", name |-> "", has_cargo_toml |-> FALSE, has_cargo_lock |-> FALSE]

\* how serde writes a bool field
BoolText(b) == IF b THEN "true" ELSE "false"

\* the header row csv derives from the struct: the field names, in order
Header == << "id", "name", "has_cargo_toml", "has_cargo_lock" >>

\* the data row of a Repo: its fields, in declaration order
Row(r) == << r.id, r.name, BoolText(r.has_cargo_toml), BoolText(r.has_cargo_lock) >>

\* csv.serialize(repo): what the writer buffers, the header first if the
\* writer has headers on
Serialize(hasHeaders, r) ==
    IF hasHeaders THEN << Header, Row(r) >> ELSE << Row(r) >>

\* what reaches the file when only the first k lines of buf, and with torn
\* the first field of the next one, are written before the write fails
Written(buf, k, torn) ==
    SubSeq(buf, 1, k) \o (IF torn THEN << SubSeq(buf[k + 1], 1, 1) >> ELSE << >>)

NoWriter == [headers |-> FALSE, buf |-> << >>]

(***************************************************************************)
(* State.                                                                  *)
(***************************************************************************)
VARIABLES
    \* GitHubApi
    slow_down,            \* AtomicBool
    concurrent_requests,  \* AtomicUsize
    \* one retry() call per thread
    pc,        \* where the thread is in retry
    op,        \* which closure it runs
    wait,      \* `wait`, in seconds
    first,     \* `first`
    res,       \* `res` of the attempt being matched
    ret,       \* what retry returned
    \* history
    resp,      \* what the remote end answered to the attempt being matched
    attempts,  \* attempts made by the current call
    failures,  \* attempts of the current call that failed and were classified
               \* as to be retried
    sleeps,    \* durations slept by the current call, in order
    calls,     \* retry() calls the thread has started
    polled,    \* the last should_slow_down(): what it returned, and whether a
               \* retry / a first retry had happened since the one before
    retried,      \* a retry happened since the last should_slow_down()
    firstRetried, \* a first retry of a call happened since then
    out,       \* what load_repositories made of the value graphql returned
    \* Data: the Progress Store
    state_cache,  \* Mutex<Option<State>>: the Option
    state_lock,   \* Mutex<Option<State>>: who holds it
    state_file,   \* state.json
    spc,          \* where the thread is in edit_state
    sop,          \* the call it makes
    sres,         \* `result`
    sret,         \* what the call returned
    scalls,       \* calls the thread has made
    \* history
    pre,          \* last_id as f found it
    anyErr,       \* some call has returned an error
    hwCache,      \* per platform, the highest value the cache has held
    hwFile,       \* per platform, the highest value the file has held
    lowered,      \* some set_last_id passed an id below the value held
    lastSet,      \* per platform, the id of the last set_last_id to take the lock
    \* Data: the Result Sink
    csv_write_lock,  \* Mutex<()>: who holds it
    csv_files,       \* <platform>.csv
    cpc,             \* where the thread is in store_repo
    cargs,           \* platform and repo of its call
    cwriter,         \* its csv::Writer
    cret,            \* what the call returned
    ccalls,          \* calls the thread has made
    \* history
    accepted,        \* per platform, the repos of the calls that returned Ok
    storeErr         \* some store_repo call has returned an error

apiVars ==
    << slow_down, concurrent_requests, pc, op, wait, first, res, ret, resp,
       attempts, failures, sleeps, calls, polled, retried, firstRetried, out >>

stateVars ==
    << state_cache, state_lock, state_file, spc, sop, sres, sret, scalls, pre,
       anyErr, hwCache, hwFile, lowered, lastSet >>

csvVars ==
    << csv_write_lock, csv_files, cpc, cargs, cwriter, cret, ccalls, accepted,
       storeErr >>

vars == << apiVars, stateVars, csvVars >>

ApiInit ==
    /\ slow_down = FALSE
    /\ concurrent_requests = 0
    /\ pc = [t \in Threads |-> "idle"]
    /\ op = [t \in Threads |-> "none"]
    /\ wait = [t \in Threads |-> InitialWait]
    /\ first = [t \in Threads |-> TRUE]
    /\ res = [t \in Threads |-> NoRes]
    /\ ret = [t \in Threads |-> NoRes]
    /\ resp = [t \in Threads |-> NoResp]
    /\ attempts = [t \in Threads |-> 0]
    /\ failures = [t \in Threads |-> 0]
    /\ sleeps = [t \in Threads |-> << >>]
    /\ calls = [t \in Threads |-> 0]
    /\ polled = [called |-> FALSE, ret |-> FALSE, retried |-> FALSE, firstRetried |-> FALSE]
    /\ retried = FALSE
    /\ firstRetried = FALSE
    /\ out = [t \in Threads |-> NoOut]

(***************************************************************************)
(* GitHubApi::retry, step by step.                                         *)
(***************************************************************************)
\* a public operation enters retry: let mut wait = 10 s; let mut first = true
Begin(t, o) ==
    /\ pc[t] \in {"idle", "done"}
    /\ out[t].tag \notin {"pending", "panic"}
    /\ calls[t] < MaxCalls
    /\ calls' = [calls EXCEPT ![t] = @ + 1]
    /\ op' = [op EXCEPT ![t] = o]
    /\ wait' = [wait EXCEPT ![t] = InitialWait]
    /\ first' = [first EXCEPT ![t] = TRUE]
    /\ res' = [res EXCEPT ![t] = NoRes]
    /\ ret' = [ret EXCEPT ![t] = NoRes]
    /\ resp' = [resp EXCEPT ![t] = NoResp]
    /\ attempts' = [attempts EXCEPT ![t] = 0]
    /\ failures' = [failures EXCEPT ![t] = 0]
    /\ sleeps' = [sleeps EXCEPT ![t] = << >>]
    /\ pc' = [pc EXCEPT ![t] = "attempt"]
    /\ out' = [out EXCEPT ![t] = IF o = "graphql" THEN Pending ELSE NoOut]
    /\ UNCHANGED << slow_down, concurrent_requests, polled, retried, firstRetried >>
    /\ UNCHANGED << stateVars, csvVars >>

\* concurrent_requests.fetch_add(1)
FetchAdd(t, maxAtt) ==
    /\ pc[t] = "attempt"
    /\ attempts[t] < maxAtt
    /\ concurrent_requests' = concurrent_requests + 1
    /\ attempts' = [attempts EXCEPT ![t] = @ + 1]
    /\ pc' = [pc EXCEPT ![t] = "call"]
    /\ UNCHANGED << slow_down, op, wait, first, res, ret, resp, failures,
                    sleeps, calls, polled, retried, firstRetried >>
    /\ UNCHANGED << out, stateVars, csvVars >>

\* let res = f(); if f panics the thread unwinds out of retry from here
Call(t) ==
    /\ pc[t] = "call"
    /\ \E r \in ResponsesOf(op[t]) :
          /\ res' = [res EXCEPT ![t] = Attempt(op[t], r)]
          /\ resp' = [resp EXCEPT ![t] = r]
          /\ pc' = [pc EXCEPT ![t] =
                       IF Attempt(op[t], r) = Panicked THEN "panicked" ELSE "called"]
    /\ UNCHANGED << slow_down, concurrent_requests, op, wait, first, ret,
                    attempts, failures, sleeps, calls, polled, retried,
                    firstRetried >>
    /\ UNCHANGED << out, stateVars, csvVars >>

\* variant: the timeout branch returns the error instead of setting retry
ReturnsOnTimeout(r) == r.ok \/ ~ShouldRetry(r) \/ r.ty = "reqwest"

\* variant: only Ok returns, every failure is retried
ReturnsOnlyOk(r) == r.ok

\* variant: no outcome leaves the loop
ReturnsNever(r) == FALSE

\* whether the match on res returns from retry: Ok(res) => return Ok(res);
\* Err(err) => if !retry { return Err(err) }
Returns(r) == r.ok \/ ~ShouldRetry(r)

\* concurrent_requests.fetch_sub(1); match res { .. }
FetchSubMatch(t) ==
    /\ pc[t] = "called"
    /\ concurrent_requests' = concurrent_requests - 1
    /\ IF Returns(res[t])
       THEN /\ ret' = [ret EXCEPT ![t] = res[t]]
            /\ pc' = [pc EXCEPT ![t] = "done"]
            /\ UNCHANGED << res, resp >>
       ELSE /\ ret' = ret
            /\ pc' = [pc EXCEPT ![t] = "slow"]
            /\ res' = [res EXCEPT ![t] = NoRes]
            /\ resp' = [resp EXCEPT ![t] = NoResp]
    /\ failures' = [failures EXCEPT ![t] =
                        IF ~res[t].ok /\ ShouldRetry(res[t]) THEN @ + 1 ELSE @]
    /\ UNCHANGED << slow_down, op, wait, first, attempts, sleeps, calls,
                    polled, retried, firstRetried >>
    /\ UNCHANGED << out, stateVars, csvVars >>

\* if first { self.slow_down.store(true) }
SlowDown(t) ==
    /\ pc[t] = "slow"
    /\ slow_down' = StoreSlowDown(first[t], slow_down)
    /\ retried' = TRUE
    /\ firstRetried' = (firstRetried \/ first[t])
    /\ pc' = [pc EXCEPT ![t] = "sleep"]
    /\ UNCHANGED << concurrent_requests, op, wait, first, res, ret, resp,
                    attempts, failures, sleeps, calls, polled >>
    /\ UNCHANGED << out, stateVars, csvVars >>

\* thread::sleep(wait); if wait < 640 s { wait *= 2 }; first = false
Sleep(t) ==
    /\ pc[t] = "sleep"
    /\ sleeps' = [sleeps EXCEPT ![t] = Append(@, wait[t])]
    /\ wait' = [wait EXCEPT ![t] = NextWait(@)]
    /\ first' = [first EXCEPT ![t] = FALSE]
    /\ pc' = [pc EXCEPT ![t] = "attempt"]
    /\ UNCHANGED << slow_down, concurrent_requests, op, res, ret, resp,
                    attempts, failures, calls, polled, retried, firstRetried >>
    /\ UNCHANGED << out, stateVars, csvVars >>

\* GitHubApi::should_slow_down: self.slow_down.swap(false)
should_slow_down ==
    /\ polled' = [called |-> TRUE, ret |-> slow_down, retried |-> retried,
                  firstRetried |-> firstRetried]
    /\ slow_down' = SwapSlowDown(slow_down)
    /\ retried' = FALSE
    /\ firstRetried' = FALSE
    /\ UNCHANGED << concurrent_requests, pc, op, wait, first, res, ret, resp,
                    attempts, failures, sleeps, calls >>
    /\ UNCHANGED << out, stateVars, csvVars >>

\* GitHubApi::load_repositories, after self.graphql(..) has returned: the `?`
\* hands an error on; the assert! panics on a cost above 1; else Ok(data.nodes)
load_repositories(t) ==
    /\ pc[t] = "done"
    /\ op[t] = "graphql"
    /\ out[t] = Pending
    /\ out' = [out EXCEPT ![t] =
                  IF ~ret[t].ok THEN OutErr
                  ELSE IF CostGuard(ret[t].val.cost) THEN Nodes(ret[t].val.nodes)
                  ELSE Panic]
    /\ UNCHANGED << slow_down, concurrent_requests, pc, op, wait, first, res, ret,
                    resp, attempts, failures, sleeps, calls, polled, retried,
                    firstRetried >>
    /\ UNCHANGED << stateVars, csvVars >>

(***************************************************************************)
(* One caller, any of the three operations, long retry sequences.          *)
(***************************************************************************)
RetryNext ==
    \/ \E o \in Ops : Begin("t1", o)
    \/ FetchAdd("t1", MaxAttempts)
    \/ Call("t1")
    \/ FetchSubMatch("t1")
    \/ SlowDown("t1")
    \/ Sleep("t1")
    \/ load_repositories("t1")
    \/ should_slow_down

\* Data::new, in a data directory holding state.json as f
StateInit(f) ==
    /\ state_cache = None
    /\ state_lock = "free"
    /\ state_file = f
    /\ spc = [t \in Threads |-> "idle"]
    /\ sop = [t \in Threads |-> NoStateOp]
    /\ sres = [t \in Threads |-> None]
    /\ sret = [t \in Threads |-> StateErr]
    /\ scalls = [t \in Threads |-> 0]
    /\ pre = [t \in Threads |-> DefaultState]
    /\ anyErr = FALSE
    /\ hwCache = DefaultState
    /\ hwFile = FreshLoad(f).map
    /\ lowered = FALSE
    /\ lastSet = DefaultState

\* Data::new, in a data directory without CSV files
CsvInit ==
    /\ csv_write_lock = "free"
    /\ csv_files = [p \in Platforms |-> NoFile]
    /\ cpc = [t \in Threads |-> "idle"]
    /\ cargs = [t \in Threads |-> [platform |-> "", repo |-> NoRepo]]
    /\ cwriter = [t \in Threads |-> NoWriter]
    /\ cret = [t \in Threads |-> FALSE]
    /\ ccalls = [t \in Threads |-> 0]
    /\ accepted = [p \in Platforms |-> << >>]
    /\ storeErr = FALSE

\* the state after GitHubApi::new and Data::new in an empty data directory
Init == ApiInit /\ StateInit(NoFile) /\ CsvInit

SpecRetry == Init /\ [][RetryNext]_vars

\* the calling thread keeps running: each step of retry that it can take, it
\* takes (thread::sleep returns after `wait`); nothing obliges a caller to
\* start a call or to poll the flag
RetryFairness ==
    /\ WF_vars(FetchAdd("t1", MaxAttempts))
    /\ WF_vars(Call("t1"))
    /\ WF_vars(FetchSubMatch("t1"))
    /\ WF_vars(SlowDown("t1"))
    /\ WF_vars(Sleep("t1"))

\* one caller probing files, and the poller
ProbeNext ==
    \/ Begin("t1", "file_exists")
    \/ FetchAdd("t1", MaxAttempts)
    \/ Call("t1")
    \/ FetchSubMatch("t1")
    \/ SlowDown("t1")
    \/ Sleep("t1")
    \/ should_slow_down

SpecRetryFair == Init /\ [][ProbeNext]_vars /\ RetryFairness

(***************************************************************************)
(* Two worker threads probing files concurrently, and the poller.          *)
(***************************************************************************)
ApiNext ==
    \/ \E t \in Threads : Begin(t, "file_exists")
    \/ \E t \in Threads : FetchAdd(t, MaxConcAttempts)
    \/ \E t \in Threads : Call(t)
    \/ \E t \in Threads : FetchSubMatch(t)
    \/ \E t \in Threads : SlowDown(t)
    \/ \E t \in Threads : Sleep(t)
    \/ should_slow_down

SpecApi == Init /\ [][ApiNext]_vars


(***************************************************************************)
(* Data::edit_state, step by step, for get_last_id and set_last_id.        *)
(***************************************************************************)
\* a `?` that fires: the error is returned, the guard dropped
StateFail(t) ==
    /\ spc' = [spc EXCEPT ![t] = "done"]
    /\ sret' = [sret EXCEPT ![t] = StateErr]
    /\ state_lock' = "free"
    /\ anyErr' = TRUE

\* the places at which a failing write of doc can stop: before anything is
\* written, before the document is closed, before its final newline
TornAt(doc) == {0, Len(doc) - 2, Len(doc) - 1}

RaiseHighWater(hw, m) == [p \in Platforms |-> HighWater(hw[p], m[p])]

\* variant: the file is loaded at every call
NeedsLoadAlways(cache) == TRUE

\* if state_cache.is_none()
NeedsLoad(cache) == cache = None

\* get_last_id / set_last_id call edit_state: self.state_cache.lock()
edit_state_lock(t, o, maxCalls) ==
    /\ spc[t] \in {"idle", "done"}
    /\ scalls[t] < maxCalls
    /\ state_lock = "free"
    /\ state_lock' = t
    /\ scalls' = [scalls EXCEPT ![t] = @ + 1]
    /\ sop' = [sop EXCEPT ![t] = o]
    /\ sres' = [sres EXCEPT ![t] = None]
    /\ sret' = [sret EXCEPT ![t] = StateErr]
    /\ pre' = [pre EXCEPT ![t] = DefaultState]
    /\ spc' = [spc EXCEPT ![t] = "locked"]
    /\ lastSet' = IF o.kind = "set" THEN Insert(lastSet, o.platform, o.id) ELSE lastSet
    /\ UNCHANGED << state_cache, state_file, anyErr, hwCache, hwFile, lowered >>
    /\ UNCHANGED << apiVars, csvVars >>

\* if state_cache.is_none() { .. }: read and parse state.json if it exists,
\* else take the default
edit_state_load(t) ==
    /\ spc[t] = "locked"
    /\ IF ~NeedsLoad(state_cache)
       THEN /\ spc' = [spc EXCEPT ![t] = "loaded"]
            /\ UNCHANGED << state_cache, state_lock, sret, anyErr, hwCache >>
       ELSE IF ~state_file.exists
       THEN /\ state_cache' = Some(DefaultState)
            /\ spc' = [spc EXCEPT ![t] = "loaded"]
            /\ UNCHANGED << state_lock, sret, anyErr, hwCache >>
       ELSE \E readOk \in BOOLEAN :
               IF readOk /\ FromJson(state_file.content).ok
               THEN /\ state_cache' = Some(FromJson(state_file.content).map)
                    /\ hwCache' = RaiseHighWater(hwCache, FromJson(state_file.content).map)
                    /\ spc' = [spc EXCEPT ![t] = "loaded"]
                    /\ UNCHANGED << state_lock, sret, anyErr >>
               ELSE /\ StateFail(t)
                    /\ UNCHANGED << state_cache, hwCache >>
    /\ UNCHANGED << state_file, sop, sres, scalls, pre, hwFile, lowered, lastSet >>
    /\ UNCHANGED << apiVars, csvVars >>

\* what f does to the state, and what it returns
Apply(o, m) ==
    IF o.kind = "set" THEN set_last_id(m, o.platform, o.id)
    ELSE get_last_id(m, o.platform)

\* let result = f(state)?
edit_state_apply(t) ==
    /\ spc[t] = "loaded"
    /\ LET m == state_cache[1]
           r == Apply(sop[t], m)
       IN  /\ state_cache' = Some(r.state)
           /\ sres' = [sres EXCEPT ![t] = r.result]
           /\ pre' = [pre EXCEPT ![t] = m]
           /\ hwCache' = RaiseHighWater(hwCache, r.state)
           /\ lowered' = (lowered \/ (/\ sop[t].kind = "set"
                                      /\ m[sop[t].platform] # None
                                      /\ sop[t].id < m[sop[t].platform][1]))
    /\ spc' = [spc EXCEPT ![t] = "applied"]
    /\ UNCHANGED << state_lock, state_file, sop, sret, scalls, anyErr, hwFile,
                    lastSet >>
    /\ UNCHANGED << apiVars, csvVars >>

\* File::create(&self.state_path)?: the file is there and empty, or the
\* error is returned
edit_state_create(t) ==
    /\ spc[t] = "applied"
    /\ \E ok \in BOOLEAN :
          IF ok
          THEN /\ state_file' = File(<< >>)
               /\ spc' = [spc EXCEPT ![t] = "created"]
               /\ UNCHANGED << state_lock, sret, anyErr >>
          ELSE /\ StateFail(t)
               /\ UNCHANGED state_file
    /\ UNCHANGED << state_cache, sop, sres, scalls, pre, hwCache, hwFile, lowered,
                    lastSet >>
    /\ UNCHANGED << apiVars, csvVars >>

\* to_writer_pretty(&mut file, &state)?; file.write_all(b"\n")?: the
\* document goes to the BufWriter; if the buffer spills and the write of the
\* file fails, the error is returned
edit_state_write(t) ==
    /\ spc[t] = "created"
    /\ \/ /\ spc' = [spc EXCEPT ![t] = "written"]
          /\ UNCHANGED << state_file, state_lock, sret, anyErr >>
       \/ \E k \in TornAt(Document(state_cache[1])) :
             /\ state_file' = File(SubSeq(Document(state_cache[1]), 1, k))
             /\ StateFail(t)
    /\ UNCHANGED << state_cache, sop, sres, scalls, pre, hwCache, hwFile, lowered,
                    lastSet >>
    /\ UNCHANGED << apiVars, csvVars >>

\* Ok(result): `file` is dropped, which writes the buffer to the file and
\* ignores an error of that write; then the guard is dropped
edit_state_return(t) ==
    /\ spc[t] = "written"
    /\ \E k \in TornAt(Document(state_cache[1])) \cup {Len(Document(state_cache[1]))} :
          /\ state_file' = File(SubSeq(Document(state_cache[1]), 1, k))
          /\ hwFile' = IF FromJson(SubSeq(Document(state_cache[1]), 1, k)).ok
                       THEN RaiseHighWater(hwFile, FromJson(SubSeq(Document(state_cache[1]), 1, k)).map)
                       ELSE hwFile
    /\ sret' = [sret EXCEPT ![t] = StateOk(sres[t])]
    /\ spc' = [spc EXCEPT ![t] = "done"]
    /\ state_lock' = "free"
    /\ UNCHANGED << state_cache, sop, sres, scalls, pre, anyErr, hwCache, lowered,
                    lastSet >>
    /\ UNCHANGED << apiVars, csvVars >>

(***************************************************************************)
(* Two threads using the Progress Store, whatever state.json they find.    *)
(***************************************************************************)
StateNext ==
    \/ \E t \in Threads, o \in StateOps : edit_state_lock(t, o, MaxConcStateCalls)
    \/ \E t \in Threads : edit_state_load(t)
    \/ \E t \in Threads : edit_state_apply(t)
    \/ \E t \in Threads : edit_state_create(t)
    \/ \E t \in Threads : edit_state_write(t)
    \/ \E t \in Threads : edit_state_return(t)

\* the state after GitHubApi::new and Data::new in a data directory that
\* may hold a state.json
InitAnyState == ApiInit /\ CsvInit /\ \E f \in StateFiles : StateInit(f)

SpecState == InitAnyState /\ [][StateNext]_vars

(***************************************************************************)
(* One caller of the Progress Store, several calls in a row.               *)
(***************************************************************************)
CursorNext ==
    \/ \E o \in StateOps : edit_state_lock("t1", o, MaxStateCalls)
    \/ edit_state_load("t1")
    \/ edit_state_apply("t1")
    \/ edit_state_create("t1")
    \/ edit_state_write("t1")
    \/ edit_state_return("t1")

SpecCursor == InitAnyState /\ [][CursorNext]_vars

(***************************************************************************)
(* Data::store_repo, step by step.                                         *)
(***************************************************************************)
\* a `?` that fires: the error is returned, the writer and the lock dropped
StoreFail(t) ==
    /\ cpc' = [cpc EXCEPT ![t] = "done"]
    /\ cret' = [cret EXCEPT ![t] = FALSE]
    /\ cwriter' = [cwriter EXCEPT ![t] = NoWriter]
    /\ csv_write_lock' = "free"
    /\ storeErr' = TRUE

\* let _lock = self.csv_write_lock.lock()
store_repo_lock(t, p, r, maxCalls) ==
    /\ cpc[t] \in {"idle", "done"}
    /\ ccalls[t] < maxCalls
    /\ csv_write_lock = "free"
    /\ csv_write_lock' = t
    /\ ccalls' = [ccalls EXCEPT ![t] = @ + 1]
    /\ cargs' = [cargs EXCEPT ![t] = [platform |-> p, repo |-> r]]
    /\ cret' = [cret EXCEPT ![t] = FALSE]
    /\ cpc' = [cpc EXCEPT ![t] = "locked"]
    /\ UNCHANGED << csv_files, cwriter, accepted, storeErr >>
    /\ UNCHANGED << apiVars, stateVars >>

\* if file.exists() { append, has_headers(false) } else { from_path }
store_repo_open(t) ==
    /\ cpc[t] = "locked"
    /\ \E ok \in BOOLEAN :
          IF ~ok
          THEN StoreFail(t) /\ UNCHANGED csv_files
          ELSE /\ cpc' = [cpc EXCEPT ![t] = "opened"]
               /\ UNCHANGED << csv_write_lock, cret, storeErr >>
               /\ IF csv_files[cargs[t].platform].exists
                  THEN /\ cwriter' = [cwriter EXCEPT ![t] = [headers |-> FALSE, buf |-> << >>]]
                       /\ UNCHANGED csv_files
                  ELSE /\ cwriter' = [cwriter EXCEPT ![t] = [headers |-> TRUE, buf |-> << >>]]
                       /\ csv_files' = [csv_files EXCEPT ![cargs[t].platform] = File(<< >>)]
    /\ UNCHANGED << cargs, ccalls, accepted >>
    /\ UNCHANGED << apiVars, stateVars >>

\* csv.serialize(repo)?: the lines go to the writer's buffer; if the buffer
\* spills and the write of the file fails, the error is returned
store_repo_serialize(t) ==
    /\ cpc[t] = "opened"
    /\ LET buf == Serialize(cwriter[t].headers, cargs[t].repo)
           p == cargs[t].platform
       IN  \/ /\ cwriter' = [cwriter EXCEPT ![t].buf = buf]
              /\ cpc' = [cpc EXCEPT ![t] = "serialized"]
              /\ UNCHANGED << csv_files, csv_write_lock, cret, storeErr >>
           \/ \E k \in 0 .. (Len(buf) - 1), torn \in BOOLEAN :
                 /\ csv_files' = [csv_files EXCEPT ![p] =
                                     File(@.content \o Written(buf, k, torn))]
                 /\ StoreFail(t)
    /\ UNCHANGED << cargs, ccalls, accepted >>
    /\ UNCHANGED << apiVars, stateVars >>

\* Ok(()): `csv` is dropped, which writes the buffer to the file and ignores
\* an error of that write; then `_lock` is dropped
store_repo_return(t) ==
    /\ cpc[t] = "serialized"
    /\ LET buf == cwriter[t].buf
           p == cargs[t].platform
       IN  /\ \/ csv_files' = [csv_files EXCEPT ![p] = File(@.content \o buf)]
              \/ \E k \in 0 .. (Len(buf) - 1), torn \in BOOLEAN :
                    csv_files' = [csv_files EXCEPT ![p] =
                                     File(@.content \o Written(buf, k, torn))]
           /\ accepted' = [accepted EXCEPT ![p] = Append(@, cargs[t].repo)]
    /\ cret' = [cret EXCEPT ![t] = TRUE]
    /\ cwriter' = [cwriter EXCEPT ![t] = NoWriter]
    /\ cpc' = [cpc EXCEPT ![t] = "done"]
    /\ csv_write_lock' = "free"
    /\ UNCHANGED << cargs, ccalls, storeErr >>
    /\ UNCHANGED << apiVars, stateVars >>

(***************************************************************************)
(* Two threads appending to the Result Sink.                               *)
(***************************************************************************)
StoreNext ==
    \/ \E t \in Threads, p \in Platforms, r \in Repos :
          store_repo_lock(t, p, r, MaxConcStoreCalls)
    \/ \E t \in Threads : store_repo_open(t)
    \/ \E t \in Threads : store_repo_serialize(t)
    \/ \E t \in Threads : store_repo_return(t)

SpecStore == Init /\ [][StoreNext]_vars

(***************************************************************************)
(* One caller of the Result Sink, several appends in a row.                *)
(***************************************************************************)
SinkNext ==
    \/ \E p \in Platforms, r \in Repos : store_repo_lock("t1", p, r, MaxStoreCalls)
    \/ store_repo_open("t1")
    \/ store_repo_serialize("t1")
    \/ store_repo_return("t1")

SpecSink == Init /\ [][SinkNext]_vars

(***************************************************************************)
(* Properties of the retry engine.                                         *)
(***************************************************************************)
Min(a, b) == IF a < b THEN a ELSE b

\* C1: when the operation fails RETRIABLE N times in a row and then
\* succeeds, retry returns that success value after exactly N+1 attempts,
\* and its i-th sleep lasts min(10 * 2^(i-1), 640) seconds.
C1_BackoffSchedule ==
    \A t \in Threads :
        /\ \A i \in 1 .. Len(sleeps[t]) :
              sleeps[t][i] = Min(10 * 2 ^ (i - 1), 640)
        /\ Len(sleeps[t]) <= failures[t]
        /\ (pc[t] = "done" /\ ret[t].ok) =>
              /\ attempts[t] = failures[t] + 1
              /\ Len(sleeps[t]) = failures[t]
              /\ ret[t] = Attempt(op[t], resp[t])

\* nine failures, the cap reached and held, then the success
C1_Witness ==
    \E t \in Threads :
        /\ pc[t] = "done"
        /\ ret[t].ok
        /\ failures[t] = 9
        /\ sleeps[t][7] = 640
        /\ sleeps[t][9] = 640

\* C2 as stated: should_slow_down() returns true if and only if at least one
\* retry (of any call, a still retrying one included) has happened since the
\* previous should_slow_down() or since creation.
C2_TrueIffAnyRetry ==
    polled.called => (polled.ret <=> polled.retried)

\* C2 as amended: should_slow_down() returns true if and only if at least
\* one call has made its first retry since the previous should_slow_down()
\* or since creation; the later retries of a call do not set the flag.
C2_TrueIffFirstRetry ==
    polled.called => (polled.ret <=> polled.firstRetried)

\* a poll that answers false although a retry has happened since the last
C2_Witness ==
    /\ polled.called
    /\ ~polled.ret
    /\ polled.retried

\* C3: retry never returns a failure classified RETRIABLE: what it returns
\* is the outcome of its last attempt, a success or a FATAL failure; after
\* a RETRIABLE failure it goes on to sleep and to attempt again.
C3_RetriableAbsorbed ==
    [][ \A t \in Threads :
          /\ pc'[t] = "done" =>
                /\ ret'[t] = Attempt(op'[t], resp'[t])
                /\ ret'[t].ok \/ ~ShouldRetry(ret'[t])
          /\ (pc[t] = "called" /\ ~res[t].ok /\ ShouldRetry(res[t])
                /\ pc'[t] # "called") => pc'[t] = "slow"
          /\ (pc[t] = "slow" /\ pc'[t] # "slow") => pc'[t] = "sleep"
          /\ (pc[t] = "sleep" /\ pc'[t] # "sleep") =>
                (pc'[t] = "attempt" /\ Len(sleeps'[t]) = Len(sleeps[t]) + 1)
      ]_vars

\* a call that absorbed a RETRIABLE failure and then returned a FATAL one
C3_Witness ==
    \E t \in Threads :
        /\ pc[t] = "done"
        /\ ~ret[t].ok
        /\ failures[t] >= 1

\* C4: on a FATAL failure of an attempt retry returns that failure at once:
\* no further attempt, no sleep after it, wait unchanged, the throttle flag
\* not written by that attempt, the in-flight counter decremented back.
C4_FatalReturnsAtOnce ==
    [][ \A t \in Threads :
          /\ (pc[t] = "called" /\ ~res[t].ok /\ ~ShouldRetry(res[t])
                /\ pc'[t] # "called") =>
                /\ pc'[t] = "done"
                /\ ret'[t] = res[t]
                /\ wait'[t] = wait[t]
                /\ sleeps'[t] = sleeps[t]
                /\ attempts'[t] = attempts[t]
                /\ slow_down' = slow_down
                /\ concurrent_requests' = concurrent_requests - 1
          /\ (pc[t] = "done" /\ ~ret[t].ok /\ pc'[t] # "done") =>
                (pc'[t] = "attempt" /\ attempts'[t] = 0)
          /\ (pc'[t] = "done" /\ ~ret'[t].ok) =>
                Len(sleeps'[t]) = attempts'[t] - 1
      ]_vars

\* a FATAL failure of the very first attempt, returned with nothing touched
C4_Witness ==
    \E t \in Threads :
        /\ pc[t] = "done"
        /\ ~ret[t].ok
        /\ attempts[t] = 1
        /\ wait[t] = 10
        /\ ~slow_down
        /\ concurrent_requests = 0

\* whether the answer carries an API error payload whose message contains
\* "abuse"
AbusePayload(o, r) ==
    CASE o = "scrape_repositories" ->
            /\ r.status # 200
            /\ r.message # None
            /\ Contains(r.message[1], Abuse)
      [] o = "graphql" ->
            /\ r.data = None
            /\ \/ r.message # None /\ Contains(r.message[1], Abuse)
               \/ /\ r.errors # None
                  /\ \E i \in 1 .. Len(r.errors[1]) :
                        Contains(r.errors[1][i].message, Abuse)
      [] OTHER -> FALSE

\* the classification C5 states
ClaimedRetriable(o, r) ==
    \/ r.transport = "timeout"
    \/ r.transport = "reset"
    \/ r.transport = "ok" /\ r.status \in {500, 502, 503, 504}
    \/ r.transport = "ok" /\ ~r.malformed /\ AbusePayload(o, r)

\* C5: a failed attempt is RETRIABLE if and only if it is an HTTP 500, 502,
\* 503 or 504, a transport timeout, a connection reset by peer, or an API
\* error payload whose message contains "abuse"; every other failure is
\* FATAL.
C5_ClassificationExact ==
    \A t \in Threads :
        (pc[t] = "called" /\ ~res[t].ok) =>
            (ShouldRetry(res[t]) <=> ClaimedRetriable(op[t], resp[t]))


(***************************************************************************)
(* Properties of the Progress Store.                                       *)
(***************************************************************************)
\* C6: after set_last_id(p, v) has returned Ok, a fresh load of state.json
\* yields the state the call found with p mapped to v and the other entries
\* unchanged; get_last_id(q) for a q without entry returns None.
C6_SetThenFreshLoad ==
    [][ \A t \in Threads :
          (spc[t] = "written" /\ spc'[t] = "done" /\ sret'[t].ok) =>
             /\ sop[t].kind = "set" =>
                   FreshLoad(state_file') =
                       [ok |-> TRUE, map |-> Insert(pre[t], sop[t].platform, sop[t].id)]
             /\ (sop[t].kind = "get" /\ pre[t][sop[t].platform] = None) =>
                   sret'[t].val = None
      ]_vars

\* C7: whenever no Progress Store call is in progress and every completed
\* call returned Ok, state.json holds the mapping of the cache, once the
\* cache is populated.
C7_WriteThrough ==
    (state_lock = "free" /\ ~anyErr /\ state_cache # None) =>
        /\ state_file.exists
        /\ FromJson(state_file.content) = [ok |-> TRUE, map |-> state_cache[1]]

\* x is not below the high-water mark hw
AtLeast(x, hw) == hw = None \/ (x # None /\ x[1] >= hw[1])

\* C8 as stated: whatever ids set_last_id is called with, the value held for
\* a platform, in the cache and in state.json, never becomes smaller than a
\* value it held earlier.
C8_NeverSmaller ==
    \A p \in Platforms :
        /\ state_cache # None => AtLeast(state_cache[1][p], hwCache[p])
        /\ (state_file.exists /\ FromJson(state_file.content).ok) =>
              AtLeast(FromJson(state_file.content).map[p], hwFile[p])

\* C8 as amended: the value held for a platform never becomes smaller than
\* a value it held earlier as long as no set_last_id call passes an id below
\* the value held; set_last_id itself stores whatever id it is given.
C8_NeverSmallerUnlessLowered ==
    ~lowered => C8_NeverSmaller

\* two threads have set the cursor of one platform, to 1 and then to 2
C8_Witness ==
    /\ ~lowered
    /\ \A t \in Threads : spc[t] = "done" /\ sret[t].ok /\ sop[t].kind = "set"
    /\ \E p \in Platforms :
          /\ \A t \in Threads : sop[t].platform = p
          /\ {sop[t].id : t \in Threads} = {1, 2}
          /\ state_cache = Some(Insert(DefaultState, p, 2))

(***************************************************************************)
(* Properties of the Result Sink.                                          *)
(***************************************************************************)
RowsOf(repos) == [i \in 1 .. Len(repos) |-> Row(repos[i])]

\* C9: after k >= 1 successful store_repo calls for a platform that had no
\* file, the file is one header row followed by the k records as rows, in
\* call order (so every append keeps the rows before it and adds one).
C9_HeaderThenRows ==
    (csv_write_lock = "free" /\ ~storeErr) =>
        \A p \in Platforms :
            accepted[p] # << >> =>
                csv_files[p] = File(<< Header >> \o RowsOf(accepted[p]))

\* C10: at most one thread at a time is between the test for the file and
\* the end of its write; so the file is always one header followed by whole
\* rows, one per completed store_repo, in the order the lock was taken.
C10_AppendsSerialized ==
    /\ Cardinality({t \in Threads : cpc[t] \in {"locked", "opened", "serialized"}}) <= 1
    /\ \A t \in Threads :
          cpc[t] \in {"locked", "opened", "serialized"} => csv_write_lock = t
    /\ (csv_write_lock = "free" /\ ~storeErr) =>
          \A p \in Platforms :
              csv_files[p].exists =>
                  LET lines == csv_files[p].content
                  IN  /\ Len(lines) = Len(accepted[p]) + 1
                      /\ lines[1] = Header
                      /\ \A i \in 2 .. Len(lines) :
                            /\ Len(lines[i]) = Len(Header)
                            /\ lines[i] = Row(accepted[p][i - 1])


(***************************************************************************)
(* Properties of the Progress Store under concurrent callers.              *)
(***************************************************************************)
\* the positions of edit_state at which the thread holds the lock
InEditState == {"locked", "loaded", "applied", "created", "written"}

\* C11: a thread inside edit_state (load, mutation, rewrite) holds the lock,
\* so no two threads are inside at once; and once every thread's calls have
\* completed with Ok, the cache and state.json both map each platform that
\* was set to the id of the last set_last_id for it, in the order in which
\* the calls took the lock.
C11_NoLostUpdate ==
    /\ \A t \in Threads : spc[t] \in InEditState => state_lock = t
    /\ ((\A t \in Threads : spc[t] = "done") /\ ~anyErr) =>
          \A p \in Platforms :
              lastSet[p] # None =>
                  /\ state_cache[1][p] = lastSet[p]
                  /\ state_file.exists
                  /\ FromJson(state_file.content).ok
                  /\ FromJson(state_file.content).map[p] = lastSet[p]


(***************************************************************************)
(* Properties of the GraphQL closure.                                      *)
(***************************************************************************)
\* the response was received, passed handle_errors and deserialized
Parsed(r) == send(r).ok /\ handle_errors(r).ok /\ json(r).ok

\* data together with errors that are all of type NOT_FOUND
DataWithNotFoundOnly(r) ==
    /\ Parsed(r)
    /\ r.data # None
    /\ r.errors # None
    /\ \A i \in 1 .. Len(r.errors[1]) : r.errors[1][i].type_ = Some("NOT_FOUND")

\* C12: a GraphQL response with data and only NOT_FOUND errors makes the
\* attempt return Ok with that data (null nodes included), and the step of
\* retry that matches it returns it: no retry is counted, nothing is slept,
\* the flag is not written.
C12_NotFoundIsSuccess ==
    [][ \A t \in Threads :
          (pc[t] = "called" /\ op[t] = "graphql" /\ DataWithNotFoundOnly(resp[t])) =>
             /\ res[t] = Ok(DataVal(resp[t].data[1]))
             /\ pc'[t] # pc[t] =>
                   /\ pc'[t] = "done"
                   /\ ret'[t] = res[t]
                   /\ slow_down' = slow_down
                   /\ sleeps'[t] = sleeps[t]
                   /\ failures'[t] = failures[t]
      ]_vars

\* a first attempt answered with data and a NOT_FOUND error has returned
C12_Witness ==
    /\ pc["t1"] = "done"
    /\ op["t1"] = "graphql"
    /\ DataWithNotFoundOnly(resp["t1"])
    /\ ret["t1"].ok
    /\ "null" \in {ret["t1"].val.nodes[i] : i \in 1 .. Len(ret["t1"].val.nodes)}
    /\ attempts["t1"] = 1
    /\ sleeps["t1"] = << >>


(***************************************************************************)
(* Properties of load_repositories.                                        *)
(***************************************************************************)
\* a deserialized GraphQL response whose data reports a cost above 1
TooCostly(r) == Parsed(r) /\ r.data # None /\ r.data[1].cost > 1

\* C13: load_repositories returns nodes only of a response of cost <= 1, and
\* does return the nodes of such a response; a response of cost > 1 is
\* matched by retry as an Ok (no retry counted, no sleep, no flag store) and
\* then makes load_repositories panic.
C13_CostGuard ==
    [][ \A t \in Threads :
          /\ (pc[t] = "called" /\ op[t] = "graphql" /\ TooCostly(resp[t])
                 /\ pc'[t] # pc[t]) =>
                /\ pc'[t] = "done"
                /\ slow_down' = slow_down
                /\ sleeps'[t] = sleeps[t]
                /\ failures'[t] = failures[t]
                /\ out'[t] = Pending
          /\ (out[t] = Pending /\ out'[t] # Pending) =>
                /\ (ret[t].ok /\ ret[t].val.cost > 1) => out'[t] = Panic
                /\ (ret[t].ok /\ ret[t].val.cost <= 1) =>
                       out'[t] = Nodes(ret[t].val.nodes)
                /\ out'[t].tag = "nodes" =>
                       (ret[t].ok /\ resp[t].data[1].cost <= 1)
                /\ slow_down' = slow_down
                /\ sleeps' = sleeps
                /\ pc' = pc
      ]_vars

\* a first attempt was answered with valid data of cost 2, and the call
\* panicked without a retry
C13_Witness ==
    /\ out["t1"] = Panic
    /\ TooCostly(resp["t1"])
    /\ resp["t1"].errors = None
    /\ attempts["t1"] = 1
    /\ sleeps["t1"] = << >>
    /\ ~slow_down


\* neither an error of the payload nor the top-level message speaks of abuse
NoAbuse(r) ==
    /\ r.errors # None =>
          \A i \in 1 .. Len(r.errors[1]) : ~Contains(r.errors[1][i].message, Abuse)
    /\ r.message # None => ~Contains(r.message[1], Abuse)

\* an error payload with an error whose type is not NOT_FOUND, no abuse
OtherErrors(r) ==
    /\ Parsed(r)
    /\ r.errors # None
    /\ \E i \in 1 .. Len(r.errors[1]) : r.errors[1][i].type_ # Some("NOT_FOUND")
    /\ NoAbuse(r)

\* C14 as stated: a GraphQL response with an error that is not NOT_FOUND
\* (and not an abuse throttle) makes the attempt fail with an error that is
\* not retried, whether or not the response carries data.
C14_OtherErrorsFatal ==
    \A t \in Threads :
        (pc[t] = "called" /\ op[t] = "graphql" /\ OtherErrors(resp[t])) =>
            (~res[t].ok /\ ~ShouldRetry(res[t]))

\* C14 as amended: a GraphQL response with an error payload of at least one
\* error (no abuse throttle) and no data makes the attempt fail with the
\* message of the last error, and retry returns that failure at once,
\* whatever the types of the errors; with data, the attempt returns the data.
C14_ErrorsWithoutDataFatal ==
    [][ \A t \in Threads :
          (/\ pc[t] = "called" /\ op[t] = "graphql" /\ Parsed(resp[t])
           /\ resp[t].errors # None /\ resp[t].errors[1] # << >>
           /\ NoAbuse(resp[t])) =>
             IF resp[t].data = None
             THEN /\ ~res[t].ok
                  /\ ~ShouldRetry(res[t])
                  /\ res[t].msg = resp[t].errors[1][Len(resp[t].errors[1])].message
                  /\ pc'[t] # pc[t] =>
                        /\ pc'[t] = "done"
                        /\ ret'[t] = res[t]
                        /\ slow_down' = slow_down
                        /\ sleeps'[t] = sleeps[t]
             ELSE res[t] = Ok(DataVal(resp[t].data[1]))
      ]_vars

\* a first attempt answered with a FORBIDDEN error and no data has failed
C14_Witness ==
    /\ pc["t1"] = "done"
    /\ op["t1"] = "graphql"
    /\ OtherErrors(resp["t1"])
    /\ resp["t1"].data = None
    /\ resp["t1"].errors[1][1].type_ = Some("FORBIDDEN")
    /\ ~ret["t1"].ok
    /\ attempts["t1"] = 1
    /\ out["t1"] = OutErr


(***************************************************************************)
(* Properties of file_exists.                                              *)
(***************************************************************************)
\* C15: for a probe that got a response, the attempt is Ok(true) exactly on
\* status 200 and Ok(false) exactly on 404, and retry returns it; on 500,
\* 502, 503 and 504 retry goes on to the backoff (10 s doubling up to 640 s)
\* and a new attempt; on any other status retry returns the failure of that
\* attempt, with nothing slept and the flag untouched.
C15_ProbeByStatus ==
    [][ \A t \in Threads :
          (pc[t] = "called" /\ op[t] = "file_exists" /\ resp[t].transport = "ok") =>
             /\ (resp[t].status = 200) <=> (res[t] = Ok(BoolVal(TRUE)))
             /\ (resp[t].status = 404) <=> (res[t] = Ok(BoolVal(FALSE)))
             /\ \A i \in 1 .. Len(sleeps[t]) :
                   sleeps[t][i] = Min(10 * 2 ^ (i - 1), 640)
             /\ pc'[t] # pc[t] =>
                   IF resp[t].status \in {500, 502, 503, 504}
                   THEN /\ pc'[t] = "slow"
                        /\ failures'[t] = failures[t] + 1
                        /\ ret'[t] = ret[t]
                   ELSE /\ pc'[t] = "done"
                        /\ ret'[t] = res[t]
                        /\ resp[t].status \notin {200, 404} =>
                              (~ret'[t].ok /\ ret'[t].status = resp[t].status)
                        /\ slow_down' = slow_down
                        /\ sleeps'[t] = sleeps[t]
                        /\ failures'[t] = failures[t]
      ]_vars

\* one probe has answered false to a 404 that followed a retried 5xx, the
\* other has failed on its first attempt with a 403
C15_Witness ==
    /\ pc["t1"] = "done" /\ pc["t2"] = "done"
    /\ op["t1"] = "file_exists" /\ op["t2"] = "file_exists"
    /\ ret["t1"] = Ok(BoolVal(FALSE))
    /\ resp["t1"].status = 404
    /\ sleeps["t1"] = << 10 >>
    /\ ~ret["t2"].ok
    /\ resp["t2"].status = 403
    /\ attempts["t2"] = 1


(***************************************************************************)
(* Properties of the in-flight counter and of the flag.                    *)
(***************************************************************************)
\* the threads between fetch_add and fetch_sub, running the closure
Executing == {t \in Threads : pc[t] \in {"call", "called"}}

\* C16: concurrent_requests is the number of threads between the fetch_add
\* and the fetch_sub of an attempt; sleeping threads are not counted, the
\* counter is never negative and is 0 when no attempt is running.
C16_InFlightCount ==
    /\ concurrent_requests = Cardinality(Executing)
    /\ concurrent_requests >= 0
    /\ Executing = {} => concurrent_requests = 0

\* C17: the step of a retry() call that follows its first failure to be
\* retried stores true in slow_down, before anything was slept; the same step
\* after a later failure leaves the flag as it is, and so does every other
\* step of the call (an Ok or a returned error among them).
C17_FlagOncePerCall ==
    [][ \A t \in Threads :
          pc'[t] # pc[t] =>
             IF pc[t] = "slow"
             THEN /\ pc'[t] = "sleep"
                  /\ IF failures[t] = 1
                     THEN slow_down' /\ sleeps[t] = << >>
                     ELSE slow_down' = slow_down
             ELSE slow_down' = slow_down
      ]_vars

\* the flag set by the first retry was polled, and the second retry of the
\* same call has left it clear
C17_Witness ==
    /\ pc["t1"] = "sleep"
    /\ failures["t1"] = 2
    /\ polled.called /\ polled.ret
    /\ ~slow_down

\* C18: the flag is true exactly while a store made by a retry has not yet
\* been reported; should_slow_down (the one step that moves no thread)
\* returns true exactly if there is such a store and leaves the flag clear,
\* so the first call after a store reports it and no later call reports it
\* again.
C18_SwapReportsOnce ==
    [][ /\ slow_down <=> firstRetried
        /\ pc' = pc =>
              /\ polled'.called
              /\ polled'.ret = firstRetried
              /\ ~slow_down'
              /\ ~firstRetried'
      ]_vars

\* both threads have stored the flag, one should_slow_down has reported it
\* and the flag is clear
C18_Witness ==
    /\ \A t \in Threads : failures[t] >= 1 /\ pc[t] = "sleep"
    /\ polled.called /\ polled.ret
    /\ ~slow_down
    /\ ~firstRetried


(***************************************************************************)
(* Liveness of retry.                                                      *)
(***************************************************************************)
\* C19: with the calling thread running, an attempt whose outcome is an Ok
\* or an error that is not to be retried leads to retry having returned that
\* outcome; a failure to be retried leads to the next attempt (as long as
\* the model allows one), the wait in between being at most 640 s.
C19_EventuallyReturns ==
    /\ (pc["t1"] = "called" /\ (res["t1"].ok \/ ~ShouldRetry(res["t1"])))
          ~> (pc["t1"] = "done" /\ ret["t1"] = res["t1"])
    /\ (pc["t1"] = "slow" /\ attempts["t1"] < MaxAttempts) ~> (pc["t1"] = "call")
    /\ [](wait["t1"] <= 640)

\* a call has returned an Ok after a failure that was retried and slept on
C19_Witness ==
    /\ pc["t1"] = "done"
    /\ ret["t1"].ok
    /\ failures["t1"] = 1
    /\ sleeps["t1"] = << 10 >>
    /\ calls["t1"] = 1


(***************************************************************************)
(* Properties of the lazy load of the Progress Store.                      *)
(***************************************************************************)
\* C20: at the load step of edit_state, with the cache empty and a
\* state.json present, a load that fails returns the error and leaves cache,
\* file and the other variables of the store as they were (so the next call
\* loads again), and a text that does not parse always fails; with the cache
\* populated the step keeps the cache whatever the file holds.  A populated
\* cache stays populated.
C20_LoadFailureLeavesNoTrace ==
    [][ /\ \A t \in Threads :
              (spc[t] = "locked" /\ spc'[t] # spc[t]) =>
                 IF state_cache = None /\ state_file.exists
                 THEN /\ spc'[t] = "done" =>
                            /\ ~sret'[t].ok
                            /\ state_cache' = None
                            /\ state_file' = state_file
                            /\ state_lock' = "free"
                            /\ sres'[t] = None
                      /\ ~FromJson(state_file.content).ok => spc'[t] = "done"
                      /\ spc'[t] # "done" =>
                            state_cache' = Some(FromJson(state_file.content).map)
                 ELSE /\ spc'[t] = "loaded"
                      /\ state_cache' =
                            IF state_cache = None THEN Some(DefaultState) ELSE state_cache
                      /\ state_file' = state_file
        /\ state_cache # None => state_cache' # None
      ]_vars

\* two calls in a row have failed to load a state.json that holds a valid
\* document: the cache is empty and the file as it was
C20_Witness ==
    /\ scalls["t1"] = 2
    /\ spc["t1"] = "done"
    /\ sop["t1"].kind = "set"
    /\ ~sret["t1"].ok
    /\ state_cache = None
    /\ state_file = File(Document(Insert(DefaultState, "github", 1)))

=============================================================================
